---------------------------- MODULE Spec2Model ----------------------------
(***************************************************************************)
(* A model of pyisotools' GamecubeISO (src/pyisotools/iso.py): the FST     *)
(* tree, the binary FST codec (load_file_systemv / _read_nodes /           *)
(* save_file_systemv), the layout planner (get_auto_blob_size /            *)
(* pre_calc_metadata) and the image builder (from_root / build).           *)
(*                                                                         *)
(* The tree is an arena: a sequence of node records, each naming its       *)
(* parent by index (0 is the root, the ISO object itself).  Buffers are    *)
(* sequences of bytes, addressed from 0 as Python's BytesIO does.          *)
(* The tables of the root's config and the alignment resolution           *)
(* (_init_tables / _get_alignment) have a specification of their own,     *)
(* SpecAlign.                                                              *)
(* pyisotools.fst (FSTNode, FST) and pyisotools.iohelper are not part of   *)
(* the source at hand; what the model needs of them is taken from the      *)
(* specification and is marked so in MODEL_MAP.json.                       *)
(***************************************************************************)
EXTENDS Integers, Sequences, FiniteSets, TLC

VARIABLES
    pc,        \* "new" | "ready" | "built" | "failed": where the session is
    origin,    \* "root" (from_root) | "iso" (from_iso): how the object is made
    input,     \* the source directory tree (origin "root"), as an arena
    nodes,     \* the FST tree of the object, as an arena
    rawFST,    \* self._rawFST, the FST buffer
    origFST,   \* the FST bytes the image held (origin "iso"), never written
    dolSize,   \* self.dol.size
    fstOffset, \* self.bootheader.fstOffset
    fstSize,   \* self.bootheader.fstSize
    checkSize, \* bootheader.fstSize as from_root's size-limit check read it
    err,       \* the exception the last operation ended with, "none" if none
    dec,       \* what the last decode did: records consumed, reads past the end
    enc,       \* what the last encode did: owners of records, string bytes
    iso,       \* the written image: its length and the payload writes
    planned,   \* a layout pass has run on the tree since it was loaded
    encoded,   \* an encode has run on the tree since it was loaded
    alignmentTable, \* self._alignmentTable: pattern -> alignment
    path,      \* the virtual path _get_alignment was last asked about
    resolved,  \* what _get_alignment returned for it
    pass       \* the last layout pass: who ran it, from where, on what argument

vars == <<pc, origin, input, nodes, rawFST, origFST, dolSize, fstOffset,
          fstSize, checkSize, err, dec, enc, iso, planned, encoded,
          alignmentTable, path, resolved, pass>>

---------------------------------------------------------------------------
(* Bounds of the model *)

\* the largest number of nodes of a tree, the root not counted
MaxNodes == 3

\* the largest number of patterns of an Alignment table, and the longest
\* virtual path asked about
MaxPatterns == 2
MaxPathLen == 2

(* Program constants *)

MaxSize == 1459978240
FILE == 0
FOLDER == 1
DefaultAlignment == 4
RecordSize == 12
FstAlignment == 2048
DolAlignment == 8192
BootAndBi2Size == 9280

\* Python's None, for the integer fields that may hold it
None == -1

Min(a, b) == IF a < b THEN a ELSE b
Max(a, b) == IF a < b THEN b ELSE a

---------------------------------------------------------------------------
(* pyisotools.iohelper *)

\* align_int(num, alignment): num rounded up to a multiple of alignment
align_int(num, alignment) == ((num + alignment - 1) \div alignment) * alignment

\* Python truthiness of an optional integer: None and 0 are false
Truthy(x) == x /= None /\ x /= 0

\* int.to_bytes(3, "big") and write_uint32: big-endian bytes
BE24(x) == << (x \div 65536) % 256, (x \div 256) % 256, x % 256 >>
BE32(x) == << (x \div 16777216) % 256, (x \div 65536) % 256,
              (x \div 256) % 256, x % 256 >>

\* int.from_bytes(b, "big"): any number of bytes, 0 for none
RECURSIVE FromBE(_)
FromBE(b) ==
    IF b = << >> THEN 0 ELSE FromBE(SubSeq(b, 1, Len(b) - 1)) * 256 + b[Len(b)]

\* BytesIO.read(n) at position pos: the bytes there are, at most n
Read(buf, pos, n) ==
    IF pos >= Len(buf) THEN << >> ELSE SubSeq(buf, pos + 1, Min(pos + n, Len(buf)))

\* BytesIO.seek(pos); write(b): overwrites in place, zero-fills a gap, and
\* keeps what lies behind the written bytes.  (The arguments are bound
\* through a one-element set so that each is computed once.)
WriteAt(buf, pos, b) ==
    CHOOSE r \in
        { [i \in 1..Max(Len(x.buf), x.pos + Len(x.b)) |->
              IF i > x.pos /\ i <= x.pos + Len(x.b) THEN x.b[i - x.pos]
              ELSE IF i <= Len(x.buf) THEN x.buf[i] ELSE 0] :
          x \in { [buf |-> buf, pos |-> pos, b |-> b] } } : TRUE

---------------------------------------------------------------------------
(* Names and the shift-jis codec.  A name is a sequence of characters, a   *)
(* character its Unicode code point.  HIRAGANA LETTER A (U+3042) stands    *)
(* for the 2-byte characters: shift-jis encodes it as 0x82 0xA0.           *)

WideChar == 12354
WideLead == 130
WideTrail == 160

\* str.encode("shift-jis")
RECURSIVE ShiftJisEncode(_)
ShiftJisEncode(name) ==
    IF name = << >> THEN << >>
    ELSE (IF Head(name) = WideChar THEN << WideLead, WideTrail >> ELSE << Head(name) >>)
         \o ShiftJisEncode(Tail(name))

\* bytes.decode("shift-jis"): a lead byte takes the byte after it
RECURSIVE ShiftJisDecode(_)
ShiftJisDecode(b) ==
    IF b = << >> THEN << >>
    ELSE IF Head(b) = WideLead /\ Len(b) >= 2 /\ b[2] = WideTrail
         THEN << WideChar >> \o ShiftJisDecode(SubSeq(b, 3, Len(b)))
         ELSE << Head(b) >> \o ShiftJisDecode(Tail(b))

\* the bytes of buf from pos up to the first zero byte or the end
RECURSIVE BytesToNull(_, _)
BytesToNull(buf, pos) ==
    IF pos >= Len(buf) \/ buf[pos + 1] = 0 THEN << >>
    ELSE << buf[pos + 1] >> \o BytesToNull(buf, pos + 1)

\* read_string(f, offset, encoding="shift-jis")
read_string(buf, offset) == ShiftJisDecode(BytesToNull(buf, offset))

---------------------------------------------------------------------------
(* pyisotools.fst: the tree *)

\* FSTNode, as FSTNode.file / FSTNode.folder / FSTNode.empty leave it
NewNode(type, parent, name) ==
    [type |-> type, parent |-> parent, name |-> name, size |-> 0,
     alignment |-> DefaultAlignment, position |-> None, exclude |-> FALSE,
     id |-> None, fileoffset |-> None, dirparent |-> None, dirnext |-> None]

is_file(n) == n.type = FILE
is_dir(n) == n.type = FOLDER

\* node.children: the children of node p (0: the root) in stored order
RECURSIVE ChildrenFrom(_, _, _)
ChildrenFrom(ns, p, i) ==
    IF i > Len(ns) THEN << >>
    ELSE (IF ns[i].parent = p THEN << i >> ELSE << >>) \o ChildrenFrom(ns, p, i + 1)

Children(ns, p) == ChildrenFrom(ns, p, 1)

\* node.rchildren: every descendant of p, pre-order depth-first, a directory
\* before its children, siblings in stored order
RECURSIVE RWalk(_, _)
RWalk(ns, cs) ==
    IF cs = << >> THEN << >>
    ELSE << Head(cs) >> \o RWalk(ns, Children(ns, Head(cs))) \o RWalk(ns, Tail(cs))

rchildren(ns, p) == RWalk(ns, Children(ns, p))

\* the _id of node p's object; the root's is 0
IdOf(ns, p) == IF p = 0 THEN 0 ELSE ns[p].id

\* the number of entries of s that are not excluded
RECURSIVE CountIncluded(_, _)
CountIncluded(ns, s) ==
    IF s = << >> THEN 0
    ELSE (IF ns[Head(s)].exclude THEN 0 ELSE 1) + CountIncluded(ns, Tail(s))

\* len(node) and node.size of a directory: the entries of its sub-tree, itself
\* counted; for the root this is the FST's entry count
NodeLen(ns, p) == 1 + CountIncluded(ns, rchildren(ns, p))

\* node.size: a file's byte size, a directory's entry count
NodeSize(ns, p) == IF is_file(ns[p]) THEN ns[p].size ELSE NodeLen(ns, p)

\* self.strTableOfs: where the string table starts
strTableOfs(ns) == NodeLen(ns, 0) * RecordSize

\* self.rfiles: the files among rchildren
RECURSIVE FilesOf(_, _)
FilesOf(ns, s) ==
    IF s = << >> THEN << >>
    ELSE (IF is_file(ns[Head(s)]) THEN << Head(s) >> ELSE << >>) \o FilesOf(ns, Tail(s))

rfiles(ns) == FilesOf(ns, rchildren(ns, 0))

---------------------------------------------------------------------------
(* The layout planner *)

\* get_auto_blob_size: the bytes the automatically placed files take.
\* CollectBlob(ns, cs, size) is _collect_size over the children cs.
RECURSIVE CollectBlob(_, _, _)
CollectBlob(ns, cs, size) ==
    IF cs = << >> THEN size
    ELSE LET child == ns[Head(cs)]
         IN  CollectBlob(ns, Tail(cs),
                 IF child.exclude \/ Truthy(child.position) THEN size
                 ELSE IF is_file(child)
                      THEN align_int(size, child.alignment) + child.size
                      ELSE CollectBlob(ns, Children(ns, Head(cs)), size))

get_auto_blob_size(ns) == CollectBlob(ns, Children(ns, 0), 0)

\* ISOBase._collect_size, behind self.datasize: as above, and rounded up to 4
\* at the end of every directory
RECURSIVE CollectSize(_, _, _)
CollectSize(ns, cs, size) ==
    IF cs = << >> THEN align_int(size, 4)
    ELSE LET node == ns[Head(cs)]
         IN  CollectSize(ns, Tail(cs),
                 IF node.exclude \/ node.position /= None THEN size
                 ELSE IF is_file(node)
                      THEN align_int(size, node.alignment) + node.size
                      ELSE CollectSize(ns, Children(ns, Head(cs)), size))

datasize(ns) == CollectSize(ns, Children(ns, 0), 0)

\* pre_calc_metadata, line 663: the offset of a file with a forced location
ForcedOffset(n) == align_int(n.position, n.alignment)

\* pre_calc_metadata, line 665: whether the pass passes over a node
PreCalcSkipsNever(n) == FALSE
PreCalcSkips(n) == n.exclude

\* pre_calc_metadata, line 667: the offset an excluded file is left with
ExcludedOffsetKept(n) == n.fileoffset
ExcludedOffset(n) == 0

\* pre_calc_metadata, line 674: the offset automatic placement gives a file
AutoOffsetUnaligned(dataOfs, n) == dataOfs
AutoOffset(dataOfs, n) == align_int(dataOfs, n.alignment)

\* pre_calc_metadata, line 675: the running offset after a file is placed
AdvanceData(dataOfs, n) == dataOfs + n.size

\* pre_calc_metadata, line 671, and save_file_systemv, line 754
NextEntry(curEntry) == curEntry + 1

\* pre_calc_metadata, line 677: child.parent._id
DirParent(ns, c) == IdOf(ns, ns[c].parent)

\* pre_calc_metadata, line 678: child.size + child._id
DirNextOfAll(ns, c, id) == 1 + Len(rchildren(ns, c)) + id
DirNext(ns, c, id) == NodeSize(ns, c) + id

\* one turn of pre_calc_metadata's loop, for the node c;
\* acc = [ns, dataOfs, curEntry]
PreCalcStep(acc, c) ==
    LET n0 == acc.ns[c]
        n1 == IF is_file(n0) /\ Truthy(n0.position)
              THEN [n0 EXCEPT !.fileoffset = ForcedOffset(n0)] ELSE n0
    IN  IF PreCalcSkips(n1)
        THEN [acc EXCEPT !.ns[c] =
                 IF is_file(n1) THEN [n1 EXCEPT !.fileoffset = ExcludedOffset(n1)]
                 ELSE n1]
        ELSE LET n2 == [n1 EXCEPT !.id = acc.curEntry]
                 ns2 == [acc.ns EXCEPT ![c] = n2]
             IN  IF is_file(n2)
                 THEN [ns |-> [ns2 EXCEPT ![c].fileoffset = AutoOffset(acc.dataOfs, n2)],
                       dataOfs |-> AdvanceData(acc.dataOfs, n2),
                       curEntry |-> NextEntry(acc.curEntry)]
                 ELSE [ns |-> [ns2 EXCEPT ![c].dirparent = DirParent(ns2, c),
                                          ![c].dirnext = DirNext(ns2, c, n2.id)],
                       dataOfs |-> acc.dataOfs,
                       curEntry |-> NextEntry(acc.curEntry)]

\* the loop of pre_calc_metadata over the nodes of order.  (A value is bound
\* through a one-element set wherever it is used more than once, here and
\* below, so that it is computed once.)
RECURSIVE PreCalcLoop(_, _)
PreCalcLoop(acc, order) ==
    IF order = << >> THEN acc
    ELSE CHOOSE r \in { PreCalcLoop(a, Tail(order)) :
                            a \in { PreCalcStep(acc, Head(order)) } } : TRUE

\* pre_calc_metadata(startpos): the tree after the pass
pre_calc_metadata(ns, startpos) ==
    CHOOSE r \in { PreCalcLoop([ns |-> ns, dataOfs |-> align_int(startpos, 4),
                                curEntry |-> 1], order).ns :
                       order \in { rchildren(ns, 0) } } : TRUE

\* the start position load_file_system and save_file_systemv pass
DefaultStart(ns) == MaxSize - get_auto_blob_size(ns)

---------------------------------------------------------------------------
(* The encoder *)

\* save_file_systemv, line 759: how far a name moves the string offset
NameAdvance(name) == Len(name) + 1

\* save_file_systemv, lines 748-752: the 12 bytes of child c's record
RecordBytes(ns, c, curEntry, strOfs) ==
    LET n == ns[c]
    IN  << (IF is_dir(n) THEN 1 ELSE 0) >>
        \o BE24(strOfs)
        \o BE32(IF is_dir(n) THEN IdOf(ns, n.parent) ELSE n.fileoffset)
        \o BE32(IF is_dir(n) THEN NodeLen(ns, c) + curEntry ELSE n.size)

\* save_file_systemv, line 743: whether the walk passes over a node
SaveSkips(n) == n.exclude

\* one turn of save_file_systemv's loop, for the node c;
\* acc = [ns, buf, pos, curEntry, strOfs, owners, strings]
SaveStep(acc, c) ==
    IF SaveSkips(acc.ns[c]) THEN acc
    ELSE CHOOSE r \in
        { LET rec == RecordBytes(ns2, c, acc.curEntry, acc.strOfs)
              nameBytes == ShiftJisEncode(ns2[c].name) \o << 0 >>
              buf1 == WriteAt(acc.buf, acc.pos, rec)
              buf2 == WriteAt(buf1, acc.strOfs + strTableOfs(ns2), nameBytes)
          IN  [ns |-> ns2, buf |-> buf2, pos |-> acc.pos + RecordSize,
               curEntry |-> NextEntry(acc.curEntry),
               strOfs |-> acc.strOfs + NameAdvance(ns2[c].name),
               owners |-> Append(acc.owners, c),
               strings |-> Append(acc.strings,
                   [node |-> c, at |-> acc.strOfs, len |-> Len(nameBytes)])] :
          ns2 \in { [acc.ns EXCEPT ![c].id = acc.curEntry] } } : TRUE

RECURSIVE SaveLoop(_, _)
SaveLoop(acc, order) ==
    IF order = << >> THEN acc
    ELSE CHOOSE r \in { SaveLoop(a, Tail(order)) :
                            a \in { SaveStep(acc, Head(order)) } } : TRUE

\* save_file_systemv, lines 734-761, on the tree ns and the buffer buf
Encode(ns, buf) ==
    CHOOSE r \in
        { SaveLoop([ns |-> n,
                    buf |-> WriteAt(buf, 0, << 1, 0, 0, 0, 0, 0, 0, 0 >>
                                               \o BE32(NodeLen(n, 0))),
                    pos |-> RecordSize, curEntry |-> 1,
                    strOfs |-> 0, owners |-> << >>, strings |-> << >>],
                   rchildren(n, 0)) : n \in { ns } } : TRUE

\* save_file_systemv(startpos, useConfig, preCalc): startpos is not read; both
\* branches run the pass from DefaultStart
save_file_systemv(ns, buf, useConfig, preCalc) ==
    Encode(IF useConfig \/ preCalc THEN pre_calc_metadata(ns, DefaultStart(ns)) ELSE ns,
           buf)

---------------------------------------------------------------------------
(* The decoder *)

\* a read of n bytes at pos that the buffer cannot serve in full
Short(buf, pos, n) == pos + n > Len(buf)

\* read_ubyte / read_uint32 unpack exactly 1 / 4 bytes; with fewer they raise
\* struct.error, whatever the caller is decoding
StructError == "struct.error"

\* _read_nodes, lines 71-74: the fields of the record at st.pos
RecordAt(buf, pos) ==
    [type |-> FromBE(Read(buf, pos, 1)),
     nameOfs |-> FromBE(Read(buf, pos + 1, 3)),
     entryOfs |-> FromBE(Read(buf, pos + 4, 4)),
     size |-> FromBE(Read(buf, pos + 8, 4))]

\* _read_nodes, lines 84-95: the node a record makes
NodeOf(rec, name, parent, id) ==
    IF rec.type = FOLDER
    THEN [NewNode(FOLDER, parent, name) EXCEPT
              !.id = id, !.dirparent = rec.entryOfs, !.dirnext = rec.size]
    ELSE [NewNode(FILE, parent, name) EXCEPT
              !.id = id, !.size = rec.size, !.fileoffset = rec.entryOfs]

\* _read_nodes(fst, node, strTabOfs), the node being a child of parent;
\* st = [pos, cur, ns, err, records, past]
RECURSIVE ReadNodes(_, _, _, _)
RECURSIVE ReadChildren(_, _, _, _, _)
ReadNodes(buf, st, parent, strTabOfs) ==
    IF st.err /= "none" THEN st
    ELSE IF Short(buf, st.pos, 1) \/ Short(buf, st.pos + 4, 4) \/ Short(buf, st.pos + 8, 4)
    THEN [st EXCEPT !.err = StructError, !.past = TRUE]
    ELSE LET rec == RecordAt(buf, st.pos)
             name == read_string(buf, strTabOfs + rec.nameOfs)
             me == Len(st.ns) + 1
             st1 == [pos |-> st.pos + RecordSize,
                     cur |-> st.cur + 1,
                     ns |-> Append(st.ns, NodeOf(rec, name, parent, st.cur)),
                     err |-> "none",
                     records |-> st.records + 1,
                     past |-> st.past \/ strTabOfs + rec.nameOfs >= Len(buf)]
         IN  IF rec.type = FOLDER
             THEN ReadChildren(buf, st1, me, rec.size, strTabOfs)
             ELSE st1

\* _read_nodes, lines 89-91: while self._curEntry < _size
ReadChildren(buf, st, me, limit, strTabOfs) ==
    IF st.err /= "none" \/ ~(st.cur < limit) THEN st
    ELSE CHOOSE r \in { ReadChildren(buf, s, me, limit, strTabOfs) :
                            s \in { ReadNodes(buf, st, me, strTabOfs) } } : TRUE

\* load_file_systemv(fst)
load_file_systemv(buf) ==
    LET st0 == [pos |-> 0, cur |-> 1, ns |-> << >>, err |-> "none",
                records |-> 0, past |-> FALSE]
    IN  IF Read(buf, 0, 1) /= << 1 >>
           \/ Read(buf, 1, 3) /= << 0, 0, 0 >>
           \/ Read(buf, 4, 4) /= << 0, 0, 0, 0 >>
        THEN [st0 EXCEPT !.err = "InvalidFSTError"]
        ELSE IF Short(buf, 8, 4)
        THEN [st0 EXCEPT !.err = StructError, !.past = TRUE]
        ELSE LET entryCount == FromBE(Read(buf, 8, 4))
             IN  ReadChildren(buf, [st0 EXCEPT !.pos = RecordSize], 0, entryCount,
                              entryCount * RecordSize)

---------------------------------------------------------------------------
(* The inputs: source directories and FST buffers *)

\* whether a is x or an ancestor of x in the shape s (0: the root)
RECURSIVE IsAncestorOrSelf(_, _, _)
IsAncestorOrSelf(s, a, x) ==
    a = x \/ (x /= 0 /\ IsAncestorOrSelf(s, a, s[x].parent))

\* the shapes of the trees of n nodes, as _load_from_path and _read_nodes
\* build them: a node's parent is a directory made before it, and a directory
\* is filled before its next sibling is made
Shapes(n) ==
    { s \in [1..n -> [type : {FILE, FOLDER}, parent : 0..(n - 1)]] :
        \A i \in 1..n :
            /\ s[i].parent < i
            /\ s[i].parent /= 0 => s[s[i].parent].type = FOLDER
            /\ IsAncestorOrSelf(s, s[i].parent, i - 1) }

AllShapes == UNION { Shapes(n) : n \in 1..MaxNodes }

\* the name of the i-th node: one letter, after a 2-byte character if wide
NameOf(i, wide) == IF wide THEN << WideChar, 96 + i >> ELSE << 96 + i >>

\* what the host file system and the tables give a file: a size that is
\* and is not a multiple of 4, the default and a larger alignment, with and
\* without a forced location, excluded or not
ForcedAt == 24576
FileKinds ==
    { [size |-> 3,  alignment |-> 4,  position |-> None,     exclude |-> FALSE],
      [size |-> 40, alignment |-> 4,  position |-> None,     exclude |-> FALSE],
      [size |-> 3,  alignment |-> 32, position |-> None,     exclude |-> FALSE],
      [size |-> 40, alignment |-> 32, position |-> ForcedAt, exclude |-> FALSE],
      [size |-> 40, alignment |-> 4,  position |-> None,     exclude |-> TRUE],
      [size |-> 3,  alignment |-> 32, position |-> ForcedAt, exclude |-> TRUE] }

\* a source directory as _load_from_path loads it (lines 99-125): every file
\* with its size and what the tables say of it; a directory is never excluded
SourceTree(s, a) ==
    [i \in DOMAIN s |->
        IF s[i].type = FILE
        THEN [NewNode(FILE, s[i].parent, NameOf(i, i = 2)) EXCEPT
                  !.size = a[i].size, !.alignment = a[i].alignment,
                  !.position = a[i].position, !.exclude = a[i].exclude]
        ELSE NewNode(FOLDER, s[i].parent, NameOf(i, i = 2))]

\* the kinds matter for files only: a directory takes one fixed kind
AttrsFor(s) ==
    { a \in [DOMAIN s -> FileKinds] :
        \A i \in DOMAIN s : s[i].type = FOLDER =>
            a[i] = [size |-> 3, alignment |-> 4, position |-> None, exclude |-> FALSE] }

SourceTrees == UNION { { SourceTree(s, a) : a \in AttrsFor(s) } : s \in AllShapes }

\* the tree behind a disc's FST: sizes and offsets as some other tool laid
\* them out, every node included; node w (if any) has a 2-byte character
DiscTree(s, w) ==
    [i \in DOMAIN s |->
        IF s[i].type = FILE
        THEN [NewNode(FILE, s[i].parent, NameOf(i, i = w)) EXCEPT
                  !.size = 8 * i, !.fileoffset = 65536 * i]
        ELSE NewNode(FOLDER, s[i].parent, NameOf(i, i = w))]

\* the FST format: the bytes of a valid FST for the tree t.  Entry ids
\* run in pre-order from 1; names lie back to back in the string table.
RECURSIVE NameBytesUpTo(_, _, _)
NameBytesUpTo(t, order, k) ==
    IF k = 0 THEN << >>
    ELSE NameBytesUpTo(t, order, k - 1) \o ShiftJisEncode(t[order[k]].name) \o << 0 >>

\* the entry id of node p in the pre-order order
RECURSIVE IndexIn(_, _)
IndexIn(order, p) ==
    IF p = 0 \/ order = << >> THEN 0
    ELSE IF order[Len(order)] = p THEN Len(order)
    ELSE IndexIn(SubSeq(order, 1, Len(order) - 1), p)

RECURSIVE ValidRecords(_, _, _)
ValidRecords(t, order, k) ==
    IF k = 0 THEN << >>
    ELSE LET n == t[order[k]]
         IN  ValidRecords(t, order, k - 1)
             \o << n.type >>
             \o BE24(Len(NameBytesUpTo(t, order, k - 1)))
             \o BE32(IF n.type = FOLDER THEN IndexIn(order, n.parent) ELSE n.fileoffset)
             \o BE32(IF n.type = FOLDER
                     THEN k + 1 + Len(rchildren(t, order[k])) ELSE n.size)

ValidFST(t) ==
    LET order == rchildren(t, 0)
    IN  << 1, 0, 0, 0, 0, 0, 0, 0 >> \o BE32(Len(order) + 1)
        \o ValidRecords(t, order, Len(order))
        \o NameBytesUpTo(t, order, Len(order))

ValidFSTs == { ValidFST(DiscTree(s, w)) : s \in AllShapes, w \in 0..MaxNodes }

\* damaged buffers, made from the valid ones with 1-byte names only: the
\* entry count raised or lowered by k, the buffer cut after its first
\* records, every directory's dirNext raised by k, or the root flag cleared
Damaged(s) ==
    LET t == DiscTree(s, 0)
        b == ValidFST(t)
        n == Len(s)
    IN  { WriteAt(b, 8, BE32(n + 1 + k)) : k \in 1..2 }
        \cup { WriteAt(b, 8, BE32(n + 1 - k)) : k \in 1..(n - 1) }
        \cup { SubSeq(b, 1, RecordSize * j) : j \in 1..n }
        \cup { [i \in 1..Len(b) |->
                  IF /\ i > RecordSize /\ i <= RecordSize * (n + 1)
                     /\ i % RecordSize = 0
                     /\ b[i - 11] = FOLDER
                  THEN b[i] + k ELSE b[i]] : k \in 1..2 }
        \cup { WriteAt(b, 0, << 0 >>) }

DamagedFSTs == UNION { Damaged(s) : s \in AllShapes }

\* the sizes of main.dol tried: a small one, and two that push the FST to the
\* last 0x800 bytes of the disc and to its very end
DolOffset == align_int(BootAndBi2Size, DolAlignment)
DolSizes == {256, MaxSize - DolOffset - FstAlignment, MaxSize - DolOffset}

\* the start positions pre_calc_metadata is called with
StartPositions(ns) == {6, DefaultStart(ns)}

---------------------------------------------------------------------------
(* The Alignment table and its resolution.  A pattern and a path are       *)
(* strings, sequences of code points; a table is a function from its       *)
(* patterns to their values.                                               *)

Star == 42
Question == 63
Space == 32
Slash == 47

\* the order of Python's str: by code point, a proper prefix first
RECURSIVE LexLess(_, _)
LexLess(p, q) ==
    IF q = << >> THEN FALSE
    ELSE IF p = << >> THEN TRUE
    ELSE IF Head(p) /= Head(q) THEN Head(p) < Head(q)
    ELSE LexLess(Tail(p), Tail(q))

\* the strings of S, smallest first
RECURSIVE Ascending(_)
Ascending(S) ==
    IF S = {} THEN << >>
    ELSE LET m == CHOOSE p \in S : \A q \in S \ {p} : LexLess(p, q)
         IN  << m >> \o Ascending(S \ {m})

ItemsBackwards(table) ==
    LET a == Ascending(DOMAIN table)
    IN  [i \in 1..Len(a) |-> a[Len(a) + 1 - i]]

\* SortedDict.items(): the keys in their sorted order
Items(table) == Ascending(DOMAIN table)

\* str.strip(), of blanks
RECURSIVE strip(_)
strip(p) ==
    IF p = << >> THEN p
    ELSE IF Head(p) = Space THEN strip(Tail(p))
    ELSE IF p[Len(p)] = Space THEN strip(SubSeq(p, 1, Len(p) - 1))
    ELSE p

\* fnmatch.fnmatch(name, pat), for patterns of characters, * and ?
RECURSIVE fnmatch(_, _)
fnmatch(name, pat) ==
    IF pat = << >> THEN name = << >>
    ELSE IF Head(pat) = Star
         THEN \/ fnmatch(name, Tail(pat))
              \/ name /= << >> /\ fnmatch(Tail(name), pat)
    ELSE IF name = << >> THEN FALSE
    ELSE /\ Head(pat) = Question \/ Head(pat) = Head(name)
         /\ fnmatch(Tail(name), Tail(pat))

\* _get_alignment, lines 181-183: the loop over the items
RECURSIVE FirstMatch(_, _, _)
FirstMatch(p, table, items) ==
    IF items = << >> THEN DefaultAlignment
    ELSE IF fnmatch(p, strip(Head(items))) THEN table[Head(items)]
    ELSE FirstMatch(p, table, Tail(items))

\* _get_alignment(node), lines 174-184, for the virtual path p
_get_alignment(p, table) ==
    IF DOMAIN table = {} THEN DefaultAlignment
    ELSE FirstMatch(p, table, Items(table))

\* _get_greatest_alignment, lines 168-172: peekitem() is the last item
_get_greatest_alignment(table) ==
    IF DOMAIN table = {} THEN DefaultAlignment
    ELSE table[Items(table)[Len(Items(table))]]

\* SortedDict(), lines 133 and 711
EmptyTable == << >>

\* FSTNode.path: the names from the top down to the node, joined by "/"
RECURSIVE PathOf(_, _)
PathOf(ns, i) ==
    IF ns[i].parent = 0 THEN ns[i].name
    ELSE PathOf(ns, ns[i].parent) \o << Slash >> \o ns[i].name

\* the patterns, values and paths tried: "a*", "*b", "?b", " ab", "b?", "a";
\* 8 and 32; the strings of a and b
Patterns ==
    { << 97, Star >>, << Star, 98 >>, << Question, 98 >>, << Space, 97, 98 >>,
      << 98, Question >>, << 97 >> }
AlignmentValues == {8, 32}
Tables ==
    UNION { [D -> AlignmentValues] :
                D \in { X \in SUBSET Patterns : Cardinality(X) <= MaxPatterns } }
Paths == UNION { [1..n -> {97, 98}] : n \in 1..MaxPathLen }

---------------------------------------------------------------------------
(* The image builder *)

\* GamecubeISO.from_root, line 229: the size-limit check
TooLarge(fstOfs, fstSz, ns) ==
    align_int(fstOfs + fstSz, FstAlignment) + datasize(ns) > MaxSize

\* build, line 377: not self._get_excluded(child)
GetExcluded(n) == n.exclude

\* build, lines 376-383: one turn of the loop over self.rfiles;
\* img = [len, writes], the stream standing at its end
WriteFile(img, ns, c) ==
    IF ~is_file(ns[c]) \/ GetExcluded(ns[c]) THEN img
    ELSE LET off == ns[c].fileoffset
             padded == Max(img.len, off)
         IN  [len |-> Max(padded, off + ns[c].size),
              writes |-> Append(img.writes,
                  [node |-> c, at |-> off, size |-> ns[c].size])]

RECURSIVE WriteFiles(_, _, _)
WriteFiles(img, ns, order) ==
    IF order = << >> THEN img
    ELSE CHOOSE r \in { WriteFiles(i, ns, Tail(order)) :
                            i \in { WriteFile(img, ns, Head(order)) } } : TRUE

\* build, lines 357-386: the image written; the header, the apploader and
\* the executable end at or before fstOfs, where the FST goes
WriteImage(ns, fstOfs, fst) ==
    CHOOSE r \in
        { [files EXCEPT !.len = Max(files.len, MaxSize)] :
             files \in { WriteFiles([len |-> fstOfs + Len(fst), writes |-> << >>],
                                    ns, rfiles(ns)) } } : TRUE

---------------------------------------------------------------------------
(* The state machine *)

NoDecode == [records |-> 0, past |-> FALSE, count |-> 0]
NoEncode == [owners |-> << >>, strings |-> << >>, strOfs |-> 0]
NoImage == [len |-> 0, writes |-> << >>]
NoPass == [by |-> "none", startpos |-> None, arg |-> None]

\* the Alignment table of the config beside a source tree: one pattern, the
\* file's own path, for every file whose alignment is not the default, so
\* that _get_alignment gives every file the alignment it has in the tree
ConfigTable(ns) ==
    [p \in { PathOf(ns, i) : i \in { j \in DOMAIN ns :
                  is_file(ns[j]) /\ ns[j].alignment /= DefaultAlignment } } |->
        ns[CHOOSE i \in DOMAIN ns : PathOf(ns, i) = p].alignment]

\* build, lines 339-340: the start position handed to save_file_systemv
BuildStartpos(ns, table) ==
    LET g == _get_greatest_alignment(table)
    IN  ((MaxSize - get_auto_blob_size(ns)) \div g) * g

Init ==
    /\ pc = "new"
    /\ origin \in {"root", "iso"}
    /\ \/ origin = "root" /\ input \in SourceTrees /\ origFST = << >>
       \/ origin = "iso" /\ input = << >> /\ origFST \in ValidFSTs \cup DamagedFSTs
    /\ nodes = << >>
    /\ rawFST = << >>
    /\ dolSize = 0
    /\ fstOffset = 0
    /\ fstSize = 0
    /\ checkSize = None
    /\ err = "none"
    /\ dec = NoDecode
    /\ enc = NoEncode
    /\ iso = NoImage
    /\ planned = FALSE
    /\ encoded = FALSE
    /\ alignmentTable = EmptyTable
    /\ path = << >>
    /\ resolved = None
    /\ pass = NoPass

\* GamecubeISO.from_root(root): init_from_root, which loads the directory
\* and runs a layout pass, then the size-limit check
FromRoot ==
    /\ pc = "new" /\ origin = "root"
    /\ \E d \in DolSizes, ns \in { pre_calc_metadata(input, DefaultStart(input)) } :
        LET fo == align_int(DolOffset + d, FstAlignment)
            fs == Len(rawFST)
        IN  /\ dolSize' = d
            /\ fstOffset' = fo
            /\ nodes' = ns
            /\ fstSize' = fs
            /\ checkSize' = fs
            /\ IF TooLarge(fo, fs, ns)
               THEN pc' = "failed" /\ err' = "FileSystemTooLargeError"
               ELSE pc' = "ready" /\ err' = "none"
    /\ planned' = TRUE
    /\ alignmentTable' = ConfigTable(input)
    /\ pass' = [by |-> "load", startpos |-> DefaultStart(input),
                arg |-> DefaultStart(input)]
    /\ UNCHANGED <<origin, input, rawFST, origFST, dec, enc, iso, encoded,
                   path, resolved>>

\* GamecubeISO.from_iso(iso): init_from_iso reads the FST off the image and
\* decodes it
FromIso ==
    /\ pc = "new" /\ origin = "iso"
    /\ \E r \in { load_file_systemv(origFST) } :
           /\ err' = r.err
           /\ pc' = IF r.err = "none" THEN "ready" ELSE "failed"
           /\ nodes' = r.ns
           /\ dec' = [records |-> r.records, past |-> r.past,
                      count |-> IF Short(origFST, 8, 4) THEN 0
                                ELSE FromBE(Read(origFST, 8, 4))]
    /\ rawFST' = origFST
    /\ fstSize' = Len(origFST)
    /\ alignmentTable' = EmptyTable
    /\ UNCHANGED <<origin, input, origFST, dolSize, fstOffset, checkSize, enc, iso,
                   planned, encoded, path, resolved, pass>>

\* pre_calc_metadata(startpos), called on a loaded tree
PreCalc ==
    /\ pc = "ready"
    /\ \E startpos \in StartPositions(nodes) :
        /\ nodes' = pre_calc_metadata(nodes, startpos)
        /\ pass' = [by |-> "pre_calc", startpos |-> startpos, arg |-> startpos]
    /\ planned' = TRUE
    /\ UNCHANGED <<pc, origin, input, rawFST, origFST, dolSize, fstOffset,
                   fstSize, checkSize, err, dec, enc, iso, encoded,
                   alignmentTable, path, resolved>>

\* save_file_systemv(startpos, useConfig, preCalc)
Save ==
    /\ pc = "ready"
    /\ \E useConfig \in BOOLEAN, preCalc \in BOOLEAN :
        \E r \in { save_file_systemv(nodes, rawFST, useConfig, preCalc) } :
            /\ nodes' = r.ns
            /\ rawFST' = r.buf
            /\ enc' = [owners |-> r.owners, strings |-> r.strings, strOfs |-> r.strOfs]
            /\ planned' = (planned \/ useConfig \/ preCalc)
            /\ pass' = IF useConfig \/ preCalc
                       THEN [by |-> "save", startpos |-> DefaultStart(nodes),
                             arg |-> 0]
                       ELSE pass
    /\ encoded' = TRUE
    /\ UNCHANGED <<pc, origin, input, origFST, dolSize, fstOffset, fstSize,
                   checkSize, err, dec, iso, alignmentTable, path, resolved>>

\* build(dest, preCalc) of an object made by from_root (build_root)
Build ==
    /\ pc = "ready" /\ origin = "root"
    /\ \E preCalc \in BOOLEAN :
        \E r \in { save_file_systemv(nodes, rawFST, FALSE, preCalc) } :
            /\ nodes' = r.ns
            /\ rawFST' = r.buf
            /\ enc' = [owners |-> r.owners, strings |-> r.strings, strOfs |-> r.strOfs]
            /\ fstSize' = Len(r.buf)
            /\ iso' = WriteImage(r.ns, fstOffset, r.buf)
            /\ planned' = (planned \/ preCalc)
            /\ pass' = IF preCalc
                       THEN [by |-> "build", startpos |-> DefaultStart(nodes),
                             arg |-> BuildStartpos(nodes, alignmentTable)]
                       ELSE pass
    /\ pc' = "built"
    /\ encoded' = TRUE
    /\ UNCHANGED <<origin, input, origFST, dolSize, fstOffset, checkSize, err, dec,
                   alignmentTable, path, resolved>>

Next == FromRoot \/ FromIso \/ PreCalc \/ Save \/ Build

Spec == Init /\ [][Next]_vars

\* The tables on their own: an object whose config is read, and which is
\* then asked for the alignment of paths.
InitAlign ==
    /\ pc = "new"
    /\ origin = "config"
    /\ input = << >> /\ origFST = << >> /\ nodes = << >> /\ rawFST = << >>
    /\ dolSize = 0 /\ fstOffset = 0 /\ fstSize = 0 /\ checkSize = None
    /\ err = "none"
    /\ dec = NoDecode /\ enc = NoEncode /\ iso = NoImage
    /\ planned = FALSE /\ encoded = FALSE
    /\ alignmentTable = EmptyTable
    /\ path = << >>
    /\ resolved = None
    /\ pass = NoPass

\* _init_tables(configPath), lines 127-136: the table of the config, or an
\* empty one when there is no config
InitTables ==
    /\ pc = "new" /\ origin = "config"
    /\ alignmentTable' \in Tables
    /\ pc' = "tables"
    /\ UNCHANGED <<origin, input, nodes, rawFST, origFST, dolSize, fstOffset,
                   fstSize, checkSize, err, dec, enc, iso, planned, encoded,
                   path, resolved, pass>>

\* _get_alignment(node) for a virtual path
GetAlignment ==
    /\ pc \in {"tables", "resolved"} /\ origin = "config"
    /\ \E p \in Paths :
          /\ path' = p
          /\ resolved' = _get_alignment(p, alignmentTable)
    /\ pc' = "resolved"
    /\ UNCHANGED <<origin, input, nodes, rawFST, origFST, dolSize, fstOffset,
                   fstSize, checkSize, err, dec, enc, iso, planned, encoded,
                   alignmentTable, pass>>

NextAlign == InitTables \/ GetAlignment

SpecAlign == InitAlign /\ [][NextAlign]_vars

---------------------------------------------------------------------------
(* Properties *)

Nodes == 1..Len(nodes)
IncludedFiles == { i \in Nodes : is_file(nodes[i]) /\ ~nodes[i].exclude }
ExcludedFiles == { i \in Nodes : is_file(nodes[i]) /\ nodes[i].exclude }
IncludedDirs == { i \in Nodes : is_dir(nodes[i]) /\ ~nodes[i].exclude }

\* a buffer is a valid FST when it decodes and is the FST of the tree it
\* decodes to
ValidBuffer(buf) ==
    \E r \in { load_file_systemv(buf) } :
        r.err = "none" /\ r.ns /= << >> /\ ValidFST(r.ns) = buf

\* C1: round trip.  Once a valid FST buffer has been decoded
\* (load_file_systemv) and the tree encoded again (save_file_systemv), the
\* buffer is byte for byte the one that was decoded.
C1_RoundTrip ==
    (origin = "iso" /\ encoded /\ ValidBuffer(origFST)) => rawFST = origFST

\* C2: after a layout pass a file that is not excluded and has a forced
\* location lies at that location rounded up to its alignment.
C2_ForcedLocationKept ==
    planned =>
        \A i \in IncludedFiles :
            Truthy(nodes[i].position) =>
                nodes[i].fileoffset = align_int(nodes[i].position, nodes[i].alignment)

\* two payload writes of the image that share a byte
Overlap(w, v) ==
    /\ w.node /= v.node
    /\ w.size > 0 /\ v.size > 0
    /\ w.at < v.at + v.size
    /\ v.at < w.at + w.size

\* C3: a build never writes two files over one another: a layout with two
\* included files on intersecting ranges ends the build with LayoutConflict,
\* so a build that has written its image has written no two such files.
C3_NoOverlappingWrites ==
    pc = "built" =>
        \A j, k \in 1..Len(iso.writes) : ~Overlap(iso.writes[j], iso.writes[k])

\* C4: size-limit check.  A build from a root directory whose FST (at its
\* built size, at fstOffset, padded to 0x800) and automatic payload exceed
\* the capacity fails with FileSystemTooLargeError and writes no image: no
\* image is ever built of such a tree.
C4_SizeLimitChecked ==
    (origin = "root" /\ pc = "built") => ~TooLarge(fstOffset, Len(rawFST), nodes)

\* C5: the image a build writes is exactly MaxSize bytes long, and no file's
\* bytes lie at or beyond MaxSize.
C5_ImageIsCapacity ==
    pc = "built" =>
        /\ iso.len = MaxSize
        /\ \A k \in 1..Len(iso.writes) :
               iso.writes[k].at + iso.writes[k].size <= MaxSize

\* the nodes of d's sub-tree that are not excluded, d among them, by the
\* parent links
IncludedSubtree(d) ==
    { x \in Nodes : ~nodes[x].exclude /\ IsAncestorOrSelf(nodes, d, x) }

\* the record of the k-th entry of the encoded FST
EncodedRecord(k) == RecordAt(rawFST, RecordSize * k)

\* the directory d, with entry id id, next-id next and parent-id par, is
\* linked soundly: id..next-1 are the ids of its included sub-tree, and par
\* is its parent's id
LinkedSoundly(d, id, next, par) ==
    /\ { nodes[x].id : x \in IncludedSubtree(d) } = id..(next - 1)
    /\ par = IdOf(nodes, nodes[d].parent)

\* C6: directory linkage.  After a layout pass every included directory's
\* [entryId, dirNextId) is exactly the ids of the directory and its included
\* descendants and its dirParentId is its parent's id (0 at the top); the
\* directory records of an encoded FST say the same.
C6_DirectoryLinkage ==
    /\ planned =>
          \A d \in IncludedDirs :
              LinkedSoundly(d, nodes[d].id, nodes[d].dirnext, nodes[d].dirparent)
    /\ encoded =>
          \A k \in 1..Len(enc.owners) :
              is_dir(nodes[enc.owners[k]]) =>
                  LinkedSoundly(enc.owners[k], k, EncodedRecord(k).size,
                                EncodedRecord(k).entryOfs)

\* a directory with an excluded file and, after it, an included file below
\* it, planned and encoded
C6_Witness ==
    /\ planned /\ encoded
    /\ \E d \in IncludedDirs, x \in ExcludedFiles, f \in IncludedFiles :
          /\ x < f
          /\ IsAncestorOrSelf(nodes, d, x) /\ IsAncestorOrSelf(nodes, d, f)

\* the included nodes in the order the tree was made, which is pre-order
IncludedInOrder == SelectSeq([i \in Nodes |-> i], LAMBDA i : ~nodes[i].exclude)

\* C7: entry-id contiguity.  After a layout pass, and after an encode, the
\* included nodes taken in pre-order have the ids 1, 2, ..., includedCount;
\* an excluded node takes none of them.
C7_EntryIdsContiguous ==
    (planned \/ encoded) =>
        \A k \in 1..Len(IncludedInOrder) : nodes[IncludedInOrder[k]].id = k

\* a planned and encoded tree with an excluded file before an included node
C7_Witness ==
    /\ planned /\ encoded
    /\ \E x \in ExcludedFiles, i \in Nodes : x < i /\ ~nodes[i].exclude

\* C8: exclusion law.  After a layout pass an excluded file's offset is 0;
\* an encoded FST has a record for every included node and for no other,
\* counts them in its entry count, and holds a name for no excluded file.
C8_ExclusionLaw ==
    /\ planned => \A x \in ExcludedFiles : nodes[x].fileoffset = 0
    /\ encoded =>
          /\ \A x \in ExcludedFiles :
                /\ \A k \in 1..Len(enc.owners) : enc.owners[k] /= x
                /\ \A k \in 1..Len(enc.strings) : enc.strings[k].node /= x
          /\ enc.owners = IncludedInOrder
          /\ FromBE(Read(rawFST, 8, 4)) = 1 + Len(IncludedInOrder)
          /\ \A k \in 1..Len(enc.owners) :
                EncodedRecord(k).type = nodes[enc.owners[k]].type

\* an excluded file with a forced location, planned and encoded beside an
\* included file
C8_Witness ==
    /\ planned /\ encoded
    /\ \E x \in ExcludedFiles : Truthy(nodes[x].position)
    /\ IncludedFiles /= {}

\* C10: alignment law.  After a layout pass every file that is not excluded
\* lies at a multiple of its alignment.
C10_AlignmentLaw ==
    planned => \A i \in IncludedFiles : nodes[i].fileoffset % nodes[i].alignment = 0

\* a planned tree where a file of alignment 32 follows a file of 3 bytes
C10_Witness ==
    /\ planned
    /\ \E i, j \in IncludedFiles :
          i < j /\ nodes[i].size = 3 /\ nodes[j].alignment = 32
              /\ nodes[j].fileoffset > 0

\* a buffer with a sound root record whose entry count or directory records
\* disagree with the records it holds: it is shorter than its entry count
\* says, or a directory record in it has a dirNext beyond the entry count
Inconsistent(buf) ==
    /\ Len(buf) >= RecordSize
    /\ SubSeq(buf, 1, 8) = << 1, 0, 0, 0, 0, 0, 0, 0 >>
    /\ \E count \in { FromBE(Read(buf, 8, 4)) } :
          \/ Len(buf) < RecordSize * count
          \/ \E k \in 1..(count - 1) :
                /\ RecordSize * (k + 1) <= Len(buf)
                /\ RecordAt(buf, RecordSize * k).type = FOLDER
                /\ RecordAt(buf, RecordSize * k).size > count

\* C9: decoding a buffer whose entry count or dirNext values disagree with
\* the records it holds ends with InvalidFSTError, without a read past the
\* end of the buffer and without more records consumed than the entry count
\* allows.
C9_InconsistentFSTRejected ==
    (origin = "iso" /\ pc /= "new" /\ Inconsistent(origFST)) =>
        /\ err = "InvalidFSTError"
        /\ ~dec.past
        /\ dec.records <= dec.count - 1

\* the patterns of the table that match the path asked about
Matching == { p \in DOMAIN alignmentTable : fnmatch(path, strip(p)) }

\* C11: alignment resolution.  _get_alignment returns the value of the
\* pattern that sorts first among the patterns of the table that match the
\* path, whichever is the more specific, and 4 when none matches.
C11_FirstSortedMatch ==
    (origin = "config" /\ pc = "resolved") =>
        resolved = IF Matching = {} THEN 4
                   ELSE alignmentTable[CHOOSE p \in Matching :
                                           \A q \in Matching \ {p} : LexLess(p, q)]

\* the path "ab" asked of the table {"a*": 8, "*b": 32}: both match, and
\* "*b" sorts first
C11_Witness ==
    /\ origin = "config" /\ pc = "resolved"
    /\ path = << 97, 98 >>
    /\ DOMAIN alignmentTable = { << 97, Star >>, << Star, 98 >> }
    /\ alignmentTable[<< 97, Star >>] = 8
    /\ alignmentTable[<< Star, 98 >>] = 32
    /\ resolved = 32

\* C12: the size pass and the placement pass agree.  After a layout pass
\* that started at MaxSize - get_auto_blob_size(), every included file lies
\* at or after that start and ends at or before MaxSize.
C12_PlacementWithinRegion ==
    (pass.by /= "none" /\ pass.startpos = DefaultStart(nodes)) =>
        \A i \in IncludedFiles :
            /\ nodes[i].fileoffset >= pass.startpos
            /\ nodes[i].fileoffset + nodes[i].size <= MaxSize

\* the bytes, terminators included, of the encoded names of the records
\* before the k-th
RECURSIVE EncodedNamesBefore(_)
EncodedNamesBefore(k) ==
    IF k <= 1 THEN 0
    ELSE EncodedNamesBefore(k - 1)
         + Len(ShiftJisEncode(nodes[enc.owners[k - 1]].name)) + 1

\* C13: the string table of an encoded FST is the encoded names of the
\* included nodes back to back in record order: each record's name offset
\* is the number of bytes written for the earlier records, and the name read
\* at it (as _read_nodes reads it) is the node's name.
C13_StringTableContiguous ==
    encoded =>
        \A k \in 1..Len(enc.owners) :
            /\ EncodedRecord(k).nameOfs = EncodedNamesBefore(k)
            /\ read_string(rawFST, FromBE(Read(rawFST, 8, 4)) * RecordSize
                                    + EncodedRecord(k).nameOfs)
                   = nodes[enc.owners[k]].name

\* the included files in pre-order
PlacedInOrder == SelectSeq(IncludedInOrder, LAMBDA i : is_file(nodes[i]))

\* C14: the layout pass of a build starts at MaxSize - get_auto_blob_size()
\* rounded down to the greatest alignment of the table, the start position
\* build computes; the first file placed, when it has no forced location,
\* lies at that start rounded up to the file's alignment.
C14_BuildStartRoundedDown ==
    (pc = "built" /\ pass.by = "build") =>
        /\ pass.startpos = pass.arg
        /\ (PlacedInOrder /= << >> /\ ~Truthy(nodes[PlacedInOrder[1]].position)) =>
               nodes[PlacedInOrder[1]].fileoffset =
                   align_int(align_int(pass.arg, 4), nodes[PlacedInOrder[1]].alignment)

=============================================================================
